---- MODULE Spec2Model ----
(***************************************************************************)
(* Model of src/app.py, the Streamlit document question-answering script.  *)
(*                                                                         *)
(* Streamlit re-executes the whole script, top to bottom, on every user    *)
(* interaction, against the per-session store st.session_state and the     *)
(* widget values.  Each action below is therefore one user interaction     *)
(* followed by one complete script run.  The external collaborators (PDF   *)
(* loader, splitter, embedding service, FAISS, retrieval chain, chat       *)
(* model) are modelled by their outcome: which call raised, how many       *)
(* chunks came back.                                                       *)
(***************************************************************************)
EXTENDS Integers, Sequences, FiniteSets, TLC

(* ---------------------------- bounds ----------------------------------- *)
DirFiles == {"census.pdf"}           \* files that may sit in ./us_census
MaxFileChunks == 5                   \* most text windows one file yields
UploadNames == {"u1.pdf", "u2.pdf"}  \* names the user may upload
Questions == {"q1", "q2"}            \* non-empty question texts
MaxHistory == 6                      \* cap on len(query_history)

(* ------------------------ program constants ---------------------------- *)
docs_per_page == 5                   \* display_documents default, and // 5
history_shown == 5                   \* query_history[-5:]

(* ------------------------- message texts ------------------------------- *)
ErrFaiss == <<"main", "Error creating FAISS vector store">>
ErrNoDocs == <<"main", "No documents were loaded or split correctly.">>
OkReady == <<"sidebar", "Vector Store is ready!">>
ErrUpload == <<"sidebar", "Please upload PDF files before creating the vector store.">>
OkResponse == <<"main", "Response generated">>
ErrNoRelevant == <<"main", "No relevant documents found.">>
ErrNotInit == <<"main", "Vector store not initialized. Please create the vector store first using the sidebar.">>
InfoEnter == <<"main", "Please enter a question above to get started.">>

BuildFaults == {"none", "embeddings", "load", "split", "index"}
InvokeFaults == {"none", "retriever", "llm"}
BuildCalls == {"load", "split_documents", "from_documents"}
AnswerCalls == {"retriever", "llm"}

VARIABLES
    us_census,       \* content of ./us_census: file -> number of text windows
    uploaded_files,  \* value of the file_uploader widget
    prompt1,         \* value of the text_input widget
    session_state,   \* st.session_state: the keys set and their values
    total_pages,     \* max_value of the number_input rendered last run, 0 if none
    page_number,     \* value of the number_input rendered last run, 0 if none
    download,        \* TRUE iff the download button was rendered last run
    run              \* what the last script run did and showed

vars == <<us_census, uploaded_files, prompt1, session_state, total_pages,
          page_number, download, run>>

Min(a, b) == IF a < b THEN a ELSE b
Max(a, b) == IF a > b THEN a ELSE b

(* ------------------- vector_embedding, app.py 25-49 -------------------- *)

\* line 26: the build runs only when no index is stored in the session
vectors_absent_always(ss) == TRUE
vectors_absent(ss) == "vectors" \notin ss.keys

\* lines 30-31: PyPDFDirectoryLoader("./us_census").load(); one record per file
loader_load_uploads == {<<u, 1>> : u \in uploaded_files}
loader_load == {<<f, us_census[f]>> : f \in DirFiles}

\* lines 32-33: RecursiveCharacterTextSplitter.split_documents
split_documents(docs) == UNION {{<<d[1], i>> : i \in 1..d[2]} : d \in docs}

\* line 45: st.session_state.vectors = FAISS.from_documents(...); the
\* assignment happens only after from_documents has returned
from_documents_partial(ss, fault) ==
    IF fault = "index"
    THEN [raised |-> TRUE,
          ss |-> [ss EXCEPT !.keys = @ \cup {"vectors"},
                            !.vectors = {c \in ss.final_documents : c[2] = 1}]]
    ELSE [raised |-> FALSE,
          ss |-> [ss EXCEPT !.keys = @ \cup {"vectors"},
                            !.vectors = ss.final_documents]]
from_documents(ss, fault) ==
    IF fault = "index"
    THEN [raised |-> TRUE, ss |-> ss]
    ELSE [raised |-> FALSE,
          ss |-> [ss EXCEPT !.keys = @ \cup {"vectors"},
                            !.vectors = ss.final_documents]]

\* The whole function.  fault names the external call that raises ("none":
\* no call raises); the result carries the fault actually raised.
vector_embedding(ss, fault) ==
    IF ~vectors_absent(ss)
    THEN [ss |-> ss, msgs |-> {}, calls |-> {}, fault |-> "none"]
    ELSE IF fault = "embeddings"                                  \* line 29
    THEN [ss |-> ss, msgs |-> {ErrFaiss}, calls |-> {}, fault |-> fault]
    ELSE LET s1 == [ss EXCEPT !.keys = @ \cup {"embeddings", "loader"}]
         IN
    IF fault = "load"                                             \* line 31
    THEN [ss |-> s1, msgs |-> {ErrFaiss}, calls |-> {"load"}, fault |-> fault]
    ELSE LET s2 == [s1 EXCEPT !.keys = @ \cup {"docs", "text_splitter"},
                              !.docs = loader_load]
         IN
    IF fault = "split"                                            \* line 33
    THEN [ss |-> s2, msgs |-> {ErrFaiss},
          calls |-> {"load", "split_documents"}, fault |-> fault]
    ELSE LET s3 == [s2 EXCEPT !.keys = @ \cup {"final_documents"},
                              !.final_documents = split_documents(s2.docs)]
         IN
    IF s3.final_documents = {}                                    \* lines 36-38
    THEN [ss |-> s3, msgs |-> {ErrNoDocs},
          calls |-> {"load", "split_documents"}, fault |-> "none"]
    ELSE LET r == from_documents(s3, fault)                       \* line 45
         IN  [ss |-> r.ss,
              msgs |-> IF r.raised THEN {ErrFaiss} ELSE {OkReady},
              calls |-> {"load", "split_documents", "from_documents"},
              fault |-> IF r.raised THEN fault ELSE "none"]

(* -------------- "Create Vector Store" button, app.py 60-64 ------------- *)

\* line 61: if uploaded_files
files_uploaded_unchecked(files) == TRUE
files_uploaded(files) == files # {}

sidebar_button(ss, clicked, files, fault) ==
    IF ~clicked
    THEN [ss |-> ss, msgs |-> {}, calls |-> {}, fault |-> "none"]
    ELSE IF files_uploaded(files)
    THEN vector_embedding(ss, fault)
    ELSE [ss |-> ss, msgs |-> {ErrUpload}, calls |-> {}, fault |-> "none"]

(* ---------------- question / answer section, app.py 136-178 ------------ *)

\* line 137: "vectors" in st.session_state
index_ready_unchecked(ss) == TRUE
index_ready(ss) == "vectors" \in ss.keys

\* lines 139-144: create_retrieval_chain(retriever, document_chain).invoke.
\* The chain calls the retriever, then hands whatever came back to the
\* document chain, which calls the chat model once; its result always has
\* the keys "input", "context" and "answer".  n is the number of chunks
\* the retriever returns.
retrieval_chain_invoke(fault, n) ==
    IF fault = "retriever"
    THEN [raised |-> TRUE, calls |-> {"retriever"}, has_context |-> FALSE,
          context |-> 0]
    ELSE IF fault = "llm"
    THEN [raised |-> TRUE, calls |-> {"retriever", "llm"},
          has_context |-> FALSE, context |-> 0]
    ELSE [raised |-> FALSE, calls |-> {"retriever", "llm"},
          has_context |-> TRUE, context |-> n]

\* line 153: total_pages = len(response["context"]) // 5 + 1
total_pages_of(n) == n \div docs_per_page + 1

\* lines 156-163: the 1-based positions of docs[start:end] for the page
display_documents(n, page) ==
    LET start == (page - 1) * docs_per_page
        end == start + docs_per_page
    IN  {i \in 1..n : start < i /\ i <= end}

\* line 154: st.number_input(min_value=1, max_value=total_pages, value=1).
\* The widget keeps the stored value while it is rendered with the same
\* arguments as in the previous run; otherwise it is a new widget showing 1.
number_input(stored, prev_total, new_total) ==
    IF prev_total = new_total /\ stored >= 1 /\ stored <= new_total
    THEN stored ELSE 1

NoAnswer ==
    [calls |-> {}, msgs |-> {}, aborted |-> FALSE, fault |-> "none",
     context |-> -1, total_pages |-> 0, page_number |-> 0, shown |-> {},
     download |-> FALSE]

question_section(ss, q, fault, n, stored, prev_total) ==
    IF q = ""                                                 \* lines 177-178
    THEN [NoAnswer EXCEPT !.msgs = {InfoEnter}]
    ELSE IF ~index_ready(ss)                                  \* lines 175-176
    THEN [NoAnswer EXCEPT !.msgs = {ErrNotInit}]
    ELSE LET r == retrieval_chain_invoke(fault, n)            \* line 144
         IN
    IF r.raised               \* no try/except here: the script run ends
    THEN [NoAnswer EXCEPT !.calls = r.calls, !.aborted = TRUE,
                          !.fault = fault]
    ELSE IF r.has_context                                     \* line 152
    THEN LET tp == total_pages_of(r.context)
             pn == number_input(stored, prev_total, tp)
         IN  [calls |-> r.calls, msgs |-> {OkResponse}, aborted |-> FALSE,
              fault |-> "none", context |-> r.context, total_pages |-> tp,
              page_number |-> pn,
              shown |-> display_documents(r.context, pn),
              download |-> TRUE]
    ELSE [NoAnswer EXCEPT !.calls = r.calls,                  \* line 174
                          !.msgs = {OkResponse, ErrNoRelevant}]

(* --------------------- query history, app.py 181-191 ------------------- *)

\* line 189: st.session_state.query_history[-5:]
first_queries(h) == SubSeq(h, 1, Min(Len(h), history_shown))
last_queries(h) == SubSeq(h, Max(Len(h) - history_shown, 0) + 1, Len(h))

history_section(ss, q) ==
    LET s1 == IF "query_history" \notin ss.keys               \* lines 181-182
              THEN [ss EXCEPT !.keys = @ \cup {"query_history"},
                              !.query_history = <<>>]
              ELSE ss
        s2 == IF q # ""                                       \* lines 184-185
              THEN [s1 EXCEPT !.query_history = Append(@, q)]
              ELSE s1
    IN  [ss |-> s2, shown |-> last_queries(s2.query_history)]

(* --------------------------- one script run ---------------------------- *)

EmptySession ==
    [keys |-> {}, docs |-> {}, final_documents |-> {}, vectors |-> {},
     query_history |-> <<>>]

\* which external calls the run is going to reach, to pick their outcomes
BuildFaultsFor(clicked, files) ==
    IF clicked /\ files_uploaded(files) /\ vectors_absent(session_state)
    THEN BuildFaults ELSE {"none"}
InvokeFaultsFor(ss, q) ==
    IF q # "" /\ index_ready(ss) THEN InvokeFaults ELSE {"none"}
ContextSizesFor(ss, q, fault) ==
    IF q # "" /\ index_ready(ss) /\ fault = "none"
    THEN 0..Cardinality(ss.vectors) ELSE {0}

\* The script, top to bottom, for one interaction: the widgets hold files,
\* q and the stored page number; clicked says whether the build button was
\* the widget that triggered the run.
ScriptRun(clicked, files, q, stored) ==
    \E bfault \in BuildFaultsFor(clicked, files) :
      LET sb == sidebar_button(session_state, clicked, files, bfault)
      IN
      \E ifault \in InvokeFaultsFor(sb.ss, q) :
      \E n \in ContextSizesFor(sb.ss, q, ifault) :
        LET qa == question_section(sb.ss, q, ifault, n, stored, total_pages)
            hs == IF qa.aborted
                  THEN [ss |-> sb.ss, shown |-> <<>>]
                  ELSE history_section(sb.ss, q)
        IN  /\ (q = "" \/ Len(session_state.query_history) < MaxHistory)
            /\ uploaded_files' = files
            /\ prompt1' = q
            /\ session_state' = hs.ss
            /\ total_pages' = qa.total_pages
            /\ page_number' = qa.page_number
            /\ download' = qa.download
            /\ run' = [clicked |-> clicked,
                       had_index |-> "vectors" \in session_state.keys,
                       index_before |-> session_state.vectors,
                       build_fault |-> sb.fault,
                       invoke_fault |-> qa.fault,
                       calls |-> sb.calls \cup qa.calls,
                       msgs |-> sb.msgs \cup qa.msgs,
                       aborted |-> qa.aborted,
                       context |-> qa.context,
                       shown_docs |-> qa.shown,
                       reached_history |-> ~qa.aborted,
                       shown_history |-> hs.shown]
            /\ UNCHANGED us_census

(* ------------------------- user interactions --------------------------- *)

\* the user changes the set of uploaded PDFs (line 58)
UploadFiles ==
    \E files \in SUBSET UploadNames :
        /\ files # uploaded_files
        /\ ScriptRun(FALSE, files, prompt1, page_number)

\* the user clicks "Create Vector Store" (line 60)
ClickBuild ==
    ScriptRun(TRUE, uploaded_files, prompt1, page_number)

\* the user enters a new text in the question box, possibly clearing it
\* (line 133); Streamlit reruns only when the value changed
SubmitQuestion ==
    \E q \in Questions \cup {""} :
        /\ q # prompt1
        /\ ScriptRun(FALSE, uploaded_files, q, page_number)

\* the user picks another page in the number_input (line 154)
ChangePage ==
    \E p \in 1..total_pages :
        /\ p # page_number
        /\ ScriptRun(FALSE, uploaded_files, prompt1, p)

\* the user clicks "Download Answer" (lines 167-172)
ClickDownload ==
    /\ download
    /\ ScriptRun(FALSE, uploaded_files, prompt1, page_number)

\* The session right after the page was first loaded: the script has run
\* once with empty widgets.
Init ==
    /\ us_census \in [DirFiles -> 0..MaxFileChunks]
    /\ uploaded_files = {}
    /\ prompt1 = ""
    /\ session_state = [EmptySession EXCEPT !.keys = {"query_history"}]
    /\ total_pages = 0
    /\ page_number = 0
    /\ download = FALSE
    /\ run = [clicked |-> FALSE, had_index |-> FALSE,
              index_before |-> {}, build_fault |-> "none",
              invoke_fault |-> "none", calls |-> {}, msgs |-> {InfoEnter},
              aborted |-> FALSE, context |-> -1, shown_docs |-> {},
              reached_history |-> TRUE, shown_history |-> <<>>]

Next ==
    \/ UploadFiles
    \/ ClickBuild
    \/ SubmitQuestion
    \/ ChangePage
    \/ ClickDownload

Spec == Init /\ [][Next]_vars

TypeOK ==
    /\ uploaded_files \subseteq UploadNames
    /\ prompt1 \in Questions \cup {""}
    /\ Len(session_state.query_history) <= MaxHistory
    /\ total_pages \in 0..(MaxFileChunks * Cardinality(DirFiles) + 1)
    /\ page_number \in 0..total_pages

(* ------------------------------ properties ----------------------------- *)

Installed == "vectors" \in session_state.keys
History == session_state.query_history
BuildRan == run.clicked /\ uploaded_files # {}
BuildFailed == run.build_fault # "none" \/ ErrNoDocs \in run.msgs
IsPrefix(s, t) == Len(s) <= Len(t) /\ SubSeq(t, 1, Len(s)) = s
CeilDiv(n, d) == (n + d - 1) \div d

\* C1: in a script run with a non-empty question and no index installed in
\* the session, neither the retriever nor the chat model is called and the
\* "Vector store not initialized" error is shown.
C1_NoIndexNoAnswer ==
    (prompt1 # "" /\ ~Installed) =>
        (run.calls \cap AnswerCalls = {} /\ ErrNotInit \in run.msgs)
C1_Witness ==
    /\ prompt1 # "" /\ ~Installed
    /\ ErrNotInit \in run.msgs
    /\ run.clicked /\ run.build_fault = "index"

C3_BuildAllOrNothing ==
    /\ (BuildRan /\ BuildFailed) =>
          /\ Installed = run.had_index
          /\ session_state.vectors = run.index_before
    /\ Installed =>
          /\ session_state.vectors = session_state.final_documents
          /\ session_state.vectors # {}
C3_Witness ==
    /\ BuildRan /\ run.build_fault = "index" /\ ~Installed
    /\ Cardinality(session_state.final_documents) > 1

\* C4: a build click with no uploaded file makes no loader, splitter or
\* embedding call, shows the upload error in the sidebar, and leaves the
\* installed index, present or absent, as it was.
C4_EmptyUploadNoBuild ==
    (run.clicked /\ uploaded_files = {}) =>
        /\ run.calls \cap BuildCalls = {}
        /\ ErrUpload \in run.msgs
        /\ ErrUpload[1] = "sidebar"
        /\ Installed = run.had_index
        /\ session_state.vectors = run.index_before
C4_Witness ==
    /\ run.clicked /\ uploaded_files = {} /\ ErrUpload \in run.msgs
    /\ run.had_index /\ Installed

\* C5: when the answer to a question comes back with an empty context, an
\* error is shown and the chat model has not been called.
C5_EmptyContextNoChat ==
    run.context = 0 =>
        (ErrNoRelevant \in run.msgs /\ "llm" \notin run.calls)

\* C6: an exception raised by an external call, in the build or while
\* answering, is caught and shown as an error; the script run is not
\* aborted by it.
C6_ExceptionsCaught ==
    (run.build_fault # "none" \/ run.invoke_fault # "none") =>
        (~run.aborted /\ \E m \in run.msgs : m \in {ErrFaiss, ErrNoRelevant})

\* C7: with N supporting chunks the page-number control admits exactly the
\* pages 1..ceil(N/5), and no page it admits is empty.
C7_PagesWithinCeil ==
    total_pages > 0 =>
        /\ total_pages = CeilDiv(run.context, docs_per_page)
        /\ \A p \in 1..total_pages : display_documents(run.context, p) # {}

\* C8: the stored history grows by exactly the question on each submission
\* of a non-empty question and is unchanged by every other interaction.
C8_HistoryIsSubmissions ==
    [][History' = IF prompt1' # prompt1 /\ prompt1' # ""
                  THEN Append(History, prompt1')
                  ELSE History]_vars

\* C9: a run that reaches the history panel shows the last min(5, n)
\* entries of the n stored ones, oldest first; and the stored list only
\* ever grows at its end.
C9_LastFiveShown ==
    /\ [](run.reached_history =>
            LET n == Len(History)
                k == Min(history_shown, n)
            IN  /\ Len(run.shown_history) = k
                /\ \A i \in 1..k : run.shown_history[i] = History[n - k + i])
    /\ [][IsPrefix(History, History')]_vars
C9_Witness ==
    /\ run.reached_history
    /\ Len(History) > history_shown
    /\ Len(run.shown_history) = history_shown
    /\ History[1] # History[Len(History)]
    /\ History[1] # History[2]

\* C10: the chunks of an installed index are those of the files in
\* ./us_census, whatever the upload set that let the build run.
C10_IndexFromDirectoryOnly ==
    Installed =>
        session_state.vectors =
            {c \in DirFiles \X (1..MaxFileChunks) : c[2] <= us_census[c[1]]}
C10_Witness ==
    /\ run.clicked /\ ~run.had_index /\ Installed
    /\ uploaded_files = {"u2.pdf"}
    /\ Cardinality(session_state.vectors) > 1

====
